---- MODULE Spec2Model ----
(***************************************************************************)
(* HttpConnection (Telegram/SourceFiles/mtproto/connection_http.cpp): the  *)
(* HTTP-tunnelled MTProto transport.  The connection object, the HTTP      *)
(* engine's outstanding notifications and the signals the connection emits *)
(* are modelled as a state machine; the handlers are operators on a record *)
(* of the object's fields so that a handler can run re-entrantly inside    *)
(* another one (abort() inside disconnectFromServer).                      *)
(***************************************************************************)
EXTENDS Integers, Sequences, FiniteSets, TLC

VARIABLES
    status,         \* _status
    checkNonce,     \* _checkNonce
    address,        \* _address
    pingTime,       \* _pingTime
    requests,       \* _requests: the tracked replies
    receivedQueue,  \* _receivedQueue
    proxy,          \* _manager's proxy
    connections,    \* number of finished -> requestFinished signal connections
    pending,        \* replies whose finished() notification is still to come
    now,            \* getms()
    nConnected,     \* connected() signals emitted since construction
    emitted,        \* signals emitted by the last call, in order
    posted,         \* HTTP requests issued by the last call, in order
    aborted,        \* reply -> number of abort() calls made by the last call
    op              \* the last call and its arguments

vars == <<status, checkNonce, address, pingTime, requests, receivedQueue,
          proxy, connections, pending, now, nConnected,
          emitted, posted, aborted, op>>

----------------------------------------------------------------------------
\* Bounds of the model.

MaxRequests == 2
MaxQueue == 2
MaxBufLen == 4
MaxWords == 2
MaxTime == 1
MaxConnects == 2
MaxBodyLen == 9

----------------------------------------------------------------------------
\* Program constants.

kForceHttpPort == 80

kErrorCodeOther == -499

kBadResponseSize == -500

sizeofMtpPrime == 4

Statuses == {"Connecting", "Ready", "Finished"}

InitialStatus == "Connecting"

\* The values a word of a buffer or of a response takes in the model.
Words == {-1, 1}

\* The values rand_value gives _checkNonce in the model.
Nonces == {1}

Addresses == {"203.0.113.5", "2001:db8::1"}

Ports == {80, 443}

Proxies == {"socks5"}

\* reply->error() of a failed reply: one value of each group of the switch.
NetworkErrors == {"ConnectionRefusedError", "RemoteHostClosedError",
                  "HostNotFoundError", "TimeoutError",
                  "OperationCanceledError", "UnknownNetworkError",
                  "ProxyTimeoutError", "ContentNotFoundError",
                  "ProtocolFailure"}

\* reply->attribute(HttpStatusCodeAttribute): invalid, or an integer.
NoStatusCode == [valid |-> FALSE, value |-> 0]

StatusCodes == {NoStatusCode} \cup {[valid |-> TRUE, value |-> s] : s \in {404}}

\* The failures the engine reports: a reply that failed before any response
\* carries no status code, a content or protocol error may carry one.
Failures ==
    {[error |-> e, statusCode |-> NoStatusCode] :
        e \in {"TimeoutError", "OperationCanceledError", "ProtocolFailure"}}
    \cup {[error |-> e, statusCode |-> sc] :
            e \in {"ContentNotFoundError"}, sc \in StatusCodes}

----------------------------------------------------------------------------
\* Words and bytes: an mtpPrime is a 32-bit signed word stored little-endian.

WordToBytes(w) ==
    LET b0 == w % 256
        w1 == (w - b0) \div 256
        b1 == w1 % 256
        w2 == (w1 - b1) \div 256
        b2 == w2 % 256
        w3 == (w2 - b2) \div 256
        b3 == w3 % 256
    IN  <<b0, b1, b2, b3>>

BytesToWord(b) ==
    LET hi == IF b[4] >= 128 THEN b[4] - 256 ELSE b[4]
    IN  ((hi * 256 + b[3]) * 256 + b[2]) * 256 + b[1]

RECURSIVE WordsToBytes(_)
WordsToBytes(ws) ==
    IF ws = <<>> THEN <<>>
    ELSE WordToBytes(Head(ws)) \o WordsToBytes(Tail(ws))

\* memcpy of size bytes into a buffer of size >> 2 words.
BytesToWords(bytes) ==
    [i \in 1..(Len(bytes) \div sizeofMtpPrime) |->
        BytesToWord(SubSeq(bytes, sizeofMtpPrime * (i - 1) + 1, sizeofMtpPrime * i))]

SeqsUpTo(S, n) == UNION {[1..k -> S] : k \in 0..n}

\* The buffers handed to sendData: one of every length up to MaxBufLen, each
\* word telling its place, the even ones negative.
Buffers == {[i \in 1..n |-> IF i % 2 = 0 THEN -i ELSE i] : n \in 0..MaxBufLen}

\* The frames the server may return: the empty one, those of one word, a
\* frame of two words that is no res_pq, and the res_pq frames of MaxWords
\* words, one for every value of the nonce.
Frames ==
    {<<>>}
    \cup {<<w>> : w \in Words}
    \cup {<<-1, 1>>}
    \cup {[i \in 1..MaxWords |-> IF i = 2 THEN n ELSE 1] : n \in Words}

\* The response bodies the server may return: the bytes of every frame, the
\* one-word bodies of two error codes, and two bodies that are no whole
\* number of words, a short one and a long one.
ResponseWords == {kBadResponseSize, -404}

Bodies ==
    {WordsToBytes(f) : f \in Frames}
    \cup {WordsToBytes(<<v>>) : v \in ResponseWords}
    \cup {[i \in 1..n |-> 255] : n \in {3, sizeofMtpPrime * MaxWords + 1}}

----------------------------------------------------------------------------
\* Signals.

SigError(code) == [sig |-> "error", code |-> code]

SigConnected == [sig |-> "connected", code |-> 0]

SigReceivedData == [sig |-> "receivedData", code |-> 0]

Emit(c, s) == [c EXCEPT !.emitted = Append(@, s),
                        !.nConnected = IF s.sig = "connected" THEN @ + 1 ELSE @]

----------------------------------------------------------------------------
\* The protocol codec.

mtpc_req_pq == 1

mtpc_resPQ == 1

\* preparePQFake(nonce): the 2-word transport header, then the probe frame.
preparePQFake(nonce) == <<0, 0, mtpc_req_pq, nonce>>

\* readPQFakeReply(data): the nonce of a res_pq frame, or an Exception.
readPQFakeReply(data) ==
    IF Len(data) >= 2 /\ data[1] = mtpc_resPQ
    THEN [ok |-> TRUE, nonce |-> data[2]]
    ELSE [ok |-> FALSE, nonce |-> 0]

----------------------------------------------------------------------------
\* qthelp::is_ipv6 and HttpConnection::url.

is_ipv6(a) == a \in {"2001:db8::1"}

\* url that writes every address without brackets.
url_NoBrackets(a) ==
    <<"http://", a, ":", kForceHttpPort, "/api">>

url(a) ==
    IF is_ipv6(a)
    THEN <<"http://[", a, "]:", kForceHttpPort, "/api">>
    ELSE <<"http://", a, ":", kForceHttpPort, "/api">>

----------------------------------------------------------------------------
\* The connection object, the engine and the signals of the current call.

Self ==
    [status |-> status, checkNonce |-> checkNonce, address |-> address,
     pingTime |-> pingTime, requests |-> requests,
     receivedQueue |-> receivedQueue, proxy |-> proxy,
     connections |-> connections, pending |-> pending,
     nConnected |-> nConnected,
     emitted |-> <<>>, posted |-> <<>>, aborted |-> <<>>]

NoOp == [name |-> "none", buffer |-> <<>>, body |-> <<>>, error |-> "NoError",
         statusCode |-> NoStatusCode, h |-> 0, calls |-> 0,
         fired |-> {}, address |-> "", port |-> 0, proxy |-> "none",
         result |-> <<>>]

\* A QNetworkReply as requestFinished sees it.
Reply(h, error, statusCode, body) ==
    [h |-> h, error |-> error, statusCode |-> statusCode, body |-> body]

----------------------------------------------------------------------------
\* HttpConnection::setProxyOverride

setProxyOverride(c, p) == [c EXCEPT !.proxy = p]

\* The reply _manager.post creates: an address no live reply has (0 when the
\* model has none left).
NewReply(c) ==
    LET free == (1..MaxRequests) \ (c.requests \cup c.pending)
    IN  IF free = {} THEN 0 ELSE CHOOSE x \in free : \A y \in free : x <= y

\* sendData that drops the 2-word header only: the body runs to the last word.
sendData_KeepsLastWord(c, buffer) ==
    IF c.status = "Finished" THEN c
    ELSE IF Len(buffer) < 3 THEN Emit(c, SigError(kErrorCodeOther))
    ELSE
        LET requestSize == (Len(buffer) - 2) * sizeofMtpPrime
            h == NewReply(c)
            request == [h |-> h, url |-> url(c.address),
                        contentLength |-> requestSize,
                        contentType |-> "application/x-www-form-urlencoded",
                        proxy |-> c.proxy,
                        body |-> SubSeq(WordsToBytes(SubSeq(buffer, 3, Len(buffer))),
                                        1, requestSize)]
        IN  [c EXCEPT !.pending = @ \cup {h},
                      !.requests = @ \cup {h},
                      !.posted = Append(@, request)]

\* sendData that says nothing of a bad packet.
sendData_SilentOnBadPacket(c, buffer) ==
    IF c.status = "Finished" THEN c
    ELSE IF Len(buffer) < 3 THEN c
    ELSE
        LET requestSize == (Len(buffer) - 3) * sizeofMtpPrime
            h == NewReply(c)
            request == [h |-> h, url |-> url(c.address),
                        contentLength |-> requestSize,
                        contentType |-> "application/x-www-form-urlencoded",
                        proxy |-> c.proxy,
                        body |-> SubSeq(WordsToBytes(SubSeq(buffer, 3, Len(buffer))),
                                        1, requestSize)]
        IN  [c EXCEPT !.pending = @ \cup {h},
                      !.requests = @ \cup {h},
                      !.posted = Append(@, request)]

\* HttpConnection::sendData
sendData(c, buffer) ==
    IF c.status = "Finished" THEN c
    ELSE IF Len(buffer) < 3 THEN Emit(c, SigError(kErrorCodeOther))
    ELSE
        LET requestSize == (Len(buffer) - 3) * sizeofMtpPrime
            h == NewReply(c)
            request == [h |-> h, url |-> url(c.address),
                        contentLength |-> requestSize,
                        contentType |-> "application/x-www-form-urlencoded",
                        proxy |-> c.proxy,
                        body |-> SubSeq(WordsToBytes(SubSeq(buffer, 3, Len(buffer))),
                                        1, requestSize)]
        IN  [c EXCEPT !.pending = @ \cup {h},
                      !.requests = @ \cup {h},
                      !.posted = Append(@, request)]

\* handleResponse that takes a body of one word for a frame.
handleResponse_AcceptsOneWord(response) ==
    IF response = <<>> THEN <<>>
    ELSE IF Len(response) % 4 # 0 \/ Len(response) < 4 THEN <<kBadResponseSize>>
    ELSE BytesToWords(response)

\* handleResponse that refuses the short responses only.
handleResponse_OddSizeOk(response) ==
    IF response = <<>> THEN <<>>
    ELSE IF Len(response) < 8 THEN <<kBadResponseSize>>
    ELSE BytesToWords(response)

\* handleResponse that does not ask whether the response is empty.
handleResponse_NoEmptyCheck(response) ==
    IF Len(response) % 4 # 0 \/ Len(response) < 8 THEN <<kBadResponseSize>>
    ELSE BytesToWords(response)

\* HttpConnection::handleResponse
handleResponse(response) ==
    IF response = <<>> THEN <<>>
    ELSE IF Len(response) % 4 # 0 \/ Len(response) < 8 THEN <<kBadResponseSize>>
    ELSE BytesToWords(response)

\* handleError that takes the status of the reply only in the content group
\* of the switch.
handleError_StatusOfContentOnly(reply) ==
    IF reply.statusCode.valid /\ reply.error = "ContentNotFoundError"
    THEN -reply.statusCode.value
    ELSE kErrorCodeOther

\* HttpConnection::handleError
handleError(reply) ==
    IF reply.statusCode.valid THEN -reply.statusCode.value ELSE kErrorCodeOther

\* HttpConnection::isConnected
isConnected(c) == c.status = "Ready"

\* requestFinished that checks every frame of two or more words as a handshake
\* response, Ready or not.
requestFinished_AlwaysHandshake(c, reply, t) ==
    IF c.status = "Finished" THEN c
    ELSE IF reply.error = "NoError" THEN
        LET c1 == [c EXCEPT !.requests = @ \ {reply.h}]
            data == handleResponse(reply.body)
        IN  IF Len(data) = 1 THEN Emit(c1, SigError(data[1]))
            ELSE IF data # <<>> THEN
                LET res_pq == readPQFakeReply(data)
                IN  IF res_pq.ok
                    THEN IF res_pq.nonce = c1.checkNonce
                         THEN Emit([c1 EXCEPT !.status = "Ready",
                                              !.pingTime = t - @], SigConnected)
                         ELSE c1
                    ELSE Emit(c1, SigError(kErrorCodeOther))
            ELSE c1
    ELSE IF reply.h \notin c.requests THEN c
    ELSE Emit([c EXCEPT !.requests = @ \ {reply.h}], SigError(handleError(reply)))

\* requestFinished that catches the parse error and says nothing.
requestFinished_SwallowsParseError(c, reply, t) ==
    IF c.status = "Finished" THEN c
    ELSE IF reply.error = "NoError" THEN
        LET c1 == [c EXCEPT !.requests = @ \ {reply.h}]
            data == handleResponse(reply.body)
        IN  IF Len(data) = 1 THEN Emit(c1, SigError(data[1]))
            ELSE IF data # <<>> THEN
                IF c1.status = "Ready"
                THEN Emit([c1 EXCEPT !.receivedQueue = Append(@, data)], SigReceivedData)
                ELSE
                    LET res_pq == readPQFakeReply(data)
                    IN  IF res_pq.ok
                        THEN IF res_pq.nonce = c1.checkNonce
                             THEN Emit([c1 EXCEPT !.status = "Ready",
                                                  !.pingTime = t - @], SigConnected)
                             ELSE c1
                        ELSE c1
            ELSE c1
    ELSE IF reply.h \notin c.requests THEN c
    ELSE Emit([c EXCEPT !.requests = @ \ {reply.h}], SigError(handleError(reply)))

\* requestFinished that puts a received frame at the front of the queue.
requestFinished_PushFront(c, reply, t) ==
    IF c.status = "Finished" THEN c
    ELSE IF reply.error = "NoError" THEN
        LET c1 == [c EXCEPT !.requests = @ \ {reply.h}]
            data == handleResponse(reply.body)
        IN  IF Len(data) = 1 THEN Emit(c1, SigError(data[1]))
            ELSE IF data # <<>> THEN
                IF c1.status = "Ready"
                THEN Emit([c1 EXCEPT !.receivedQueue = <<data>> \o @], SigReceivedData)
                ELSE
                    LET res_pq == readPQFakeReply(data)
                    IN  IF res_pq.ok
                        THEN IF res_pq.nonce = c1.checkNonce
                             THEN Emit([c1 EXCEPT !.status = "Ready",
                                                  !.pingTime = t - @], SigConnected)
                             ELSE c1
                        ELSE Emit(c1, SigError(kErrorCodeOther))
            ELSE c1
    ELSE IF reply.h \notin c.requests THEN c
    ELSE Emit([c EXCEPT !.requests = @ \ {reply.h}], SigError(handleError(reply)))

\* requestFinished that signals the failure of a reply it does not track.
requestFinished_ErrorOfUntracked(c, reply, t) ==
    IF c.status = "Finished" THEN c
    ELSE IF reply.error = "NoError" THEN
        LET c1 == [c EXCEPT !.requests = @ \ {reply.h}]
            data == handleResponse(reply.body)
        IN  IF Len(data) = 1 THEN Emit(c1, SigError(data[1]))
            ELSE IF data # <<>> THEN
                IF c1.status = "Ready"
                THEN Emit([c1 EXCEPT !.receivedQueue = Append(@, data)], SigReceivedData)
                ELSE
                    LET res_pq == readPQFakeReply(data)
                    IN  IF res_pq.ok
                        THEN IF res_pq.nonce = c1.checkNonce
                             THEN Emit([c1 EXCEPT !.status = "Ready",
                                                  !.pingTime = t - @], SigConnected)
                             ELSE c1
                        ELSE Emit(c1, SigError(kErrorCodeOther))
            ELSE c1
    ELSE Emit([c EXCEPT !.requests = @ \ {reply.h}], SigError(handleError(reply)))

\* requestFinished that takes a buffer of one word for a frame.
requestFinished_NoOneWordCase(c, reply, t) ==
    IF c.status = "Finished" THEN c
    ELSE IF reply.error = "NoError" THEN
        LET c1 == [c EXCEPT !.requests = @ \ {reply.h}]
            data == handleResponse(reply.body)
        IN  IF data # <<>> THEN
                IF c1.status = "Ready"
                THEN Emit([c1 EXCEPT !.receivedQueue = Append(@, data)], SigReceivedData)
                ELSE
                    LET res_pq == readPQFakeReply(data)
                    IN  IF res_pq.ok
                        THEN IF res_pq.nonce = c1.checkNonce
                             THEN Emit([c1 EXCEPT !.status = "Ready",
                                                  !.pingTime = t - @], SigConnected)
                             ELSE c1
                        ELSE Emit(c1, SigError(kErrorCodeOther))
            ELSE c1
    ELSE IF reply.h \notin c.requests THEN c
    ELSE Emit([c EXCEPT !.requests = @ \ {reply.h}], SigError(handleError(reply)))

\* requestFinished that keeps the time of the handshake response, not the
\* time it took.
requestFinished_PingIsTimestamp(c, reply, t) ==
    IF c.status = "Finished" THEN c
    ELSE IF reply.error = "NoError" THEN
        LET c1 == [c EXCEPT !.requests = @ \ {reply.h}]
            data == handleResponse(reply.body)
        IN  IF Len(data) = 1 THEN Emit(c1, SigError(data[1]))
            ELSE IF data # <<>> THEN
                IF c1.status = "Ready"
                THEN Emit([c1 EXCEPT !.receivedQueue = Append(@, data)], SigReceivedData)
                ELSE
                    LET res_pq == readPQFakeReply(data)
                    IN  IF res_pq.ok
                        THEN IF res_pq.nonce = c1.checkNonce
                             THEN Emit([c1 EXCEPT !.status = "Ready",
                                                  !.pingTime = t], SigConnected)
                             ELSE c1
                        ELSE Emit(c1, SigError(kErrorCodeOther))
            ELSE c1
    ELSE IF reply.h \notin c.requests THEN c
    ELSE Emit([c EXCEPT !.requests = @ \ {reply.h}], SigError(handleError(reply)))

\* requestFinished that puts the handshake response in the received queue.
requestFinished_QueuesHandshake(c, reply, t) ==
    IF c.status = "Finished" THEN c
    ELSE IF reply.error = "NoError" THEN
        LET c1 == [c EXCEPT !.requests = @ \ {reply.h}]
            data == handleResponse(reply.body)
        IN  IF Len(data) = 1 THEN Emit(c1, SigError(data[1]))
            ELSE IF data # <<>> THEN
                IF c1.status = "Ready"
                THEN Emit([c1 EXCEPT !.receivedQueue = Append(@, data)], SigReceivedData)
                ELSE
                    LET res_pq == readPQFakeReply(data)
                    IN  IF res_pq.ok
                        THEN IF res_pq.nonce = c1.checkNonce
                             THEN Emit([c1 EXCEPT !.status = "Ready",
                                                  !.pingTime = t - @,
                                                  !.receivedQueue = Append(@, data)],
                                       SigConnected)
                             ELSE c1
                        ELSE Emit(c1, SigError(kErrorCodeOther))
            ELSE c1
    ELSE IF reply.h \notin c.requests THEN c
    ELSE Emit([c EXCEPT !.requests = @ \ {reply.h}], SigError(handleError(reply)))

\* requestFinished that posts a request again when a reply has failed.
requestFinished_RetriesOnError(c, reply, t) ==
    IF c.status = "Finished" THEN c
    ELSE IF reply.error = "NoError" THEN
        LET c1 == [c EXCEPT !.requests = @ \ {reply.h}]
            data == handleResponse(reply.body)
        IN  IF Len(data) = 1 THEN Emit(c1, SigError(data[1]))
            ELSE IF data # <<>> THEN
                IF c1.status = "Ready"
                THEN Emit([c1 EXCEPT !.receivedQueue = Append(@, data)], SigReceivedData)
                ELSE
                    LET res_pq == readPQFakeReply(data)
                    IN  IF res_pq.ok
                        THEN IF res_pq.nonce = c1.checkNonce
                             THEN Emit([c1 EXCEPT !.status = "Ready",
                                                  !.pingTime = t - @], SigConnected)
                             ELSE c1
                        ELSE Emit(c1, SigError(kErrorCodeOther))
            ELSE c1
    ELSE IF reply.h \notin c.requests THEN c
    ELSE
        LET c1 == Emit([c EXCEPT !.requests = @ \ {reply.h}], SigError(handleError(reply)))
            h == NewReply(c1)
            request == [h |-> h, url |-> url(c1.address),
                        contentLength |-> 0,
                        contentType |-> "application/x-www-form-urlencoded",
                        proxy |-> c1.proxy,
                        body |-> <<>>]
        IN  [c1 EXCEPT !.pending = @ \cup {h},
                       !.requests = @ \cup {h},
                       !.posted = Append(@, request)]

\* HttpConnection::requestFinished, called at time t
requestFinished(c, reply, t) ==
    IF c.status = "Finished" THEN c
    ELSE IF reply.error = "NoError" THEN
        LET c1 == [c EXCEPT !.requests = @ \ {reply.h}]
            data == handleResponse(reply.body)
        IN  IF Len(data) = 1 THEN Emit(c1, SigError(data[1]))
            ELSE IF data # <<>> THEN
                IF c1.status = "Ready"
                THEN Emit([c1 EXCEPT !.receivedQueue = Append(@, data)], SigReceivedData)
                ELSE
                    LET res_pq == readPQFakeReply(data)
                    IN  IF res_pq.ok
                        THEN IF res_pq.nonce = c1.checkNonce
                             THEN Emit([c1 EXCEPT !.status = "Ready",
                                                  !.pingTime = t - @], SigConnected)
                             ELSE c1
                        ELSE Emit(c1, SigError(kErrorCodeOther))
            ELSE c1
    ELSE IF reply.h \notin c.requests THEN c
    ELSE Emit([c EXCEPT !.requests = @ \ {reply.h}], SigError(handleError(reply)))

\* What is left to read of a reply once one slot has handled it: readAll()
\* drains the body.
AfterSlot(c, reply) ==
    IF c.status # "Finished" /\ reply.error = "NoError"
    THEN [reply EXCEPT !.body = <<>>]
    ELSE reply

\* QNetworkAccessManager::finished(reply): every connection of the signal to
\* requestFinished calls the slot once.
RECURSIVE EmitFinished(_, _, _, _)
EmitFinished(c, reply, k, t) ==
    IF k = 0 THEN c
    ELSE EmitFinished(requestFinished(c, reply, t), AfterSlot(c, reply), k - 1, t)

\* QNetworkReply::abort on each reply of a set, one after the other: a reply
\* of fired emits finished() with OperationCanceledError from inside abort.
RECURSIVE AbortAll(_, _, _, _)
AbortAll(c, hs, fired, t) ==
    IF hs = {} THEN c
    ELSE
        LET h == CHOOSE x \in hs : \A y \in hs : x <= y
            c1 == [c EXCEPT !.aborted =
                      [x \in (DOMAIN @) \cup {h} |->
                          IF x \in DOMAIN @ THEN @[x] + (IF x = h THEN 1 ELSE 0) ELSE 1]]
            c2 == IF h \in fired
                  THEN EmitFinished(c1, Reply(h, "OperationCanceledError", NoStatusCode, <<>>),
                                    c1.connections, t)
                  ELSE c1
        IN  AbortAll(c2, hs \ {h}, fired, t)

\* disconnectFromServer that does not look at the status first.
disconnectFromServer_NoGuard(c, fired, t) ==
    LET taken == c.requests
        c1 == [c EXCEPT !.status = "Finished", !.requests = {}]
        c2 == AbortAll(c1, taken, fired, t)
    IN  [c2 EXCEPT !.pending = @ \ taken,
                   !.connections = 0]

\* disconnectFromServer that aborts the tracked replies first, and only then
\* forgets them and sets the status.
disconnectFromServer_AbortsFirst(c, fired, t) ==
    IF c.status = "Finished" THEN c
    ELSE
        LET taken == c.requests
            c1 == AbortAll(c, taken, fired, t)
        IN  [c1 EXCEPT !.status = "Finished",
                       !.requests = {},
                       !.pending = @ \ taken,
                       !.connections = 0]

\* HttpConnection::disconnectFromServer.  Of the replies it aborts, those of
\* fired notify from inside abort(); no aborted reply notifies later, each is
\* deleted.
disconnectFromServer(c, fired, t) ==
    IF c.status = "Finished" THEN c
    ELSE
        LET taken == c.requests
            c1 == [c EXCEPT !.status = "Finished", !.requests = {}]
            c2 == AbortAll(c1, taken, fired, t)
        IN  [c2 EXCEPT !.pending = @ \ taken,
                       !.connections = 0]

\* connectToServer that starts over: it puts the status back to Connecting.
connectToServer_ResetsStatus(c, a, port, t) ==
    LET c1 == [c EXCEPT !.address = a,
                        !.connections = @ + 1,
                        !.pingTime = t,
                        !.status = "Connecting"]
    IN  sendData(c1, preparePQFake(c1.checkNonce))

\* HttpConnection::connectToServer, called at time t
connectToServer(c, a, port, t) ==
    LET c1 == [c EXCEPT !.address = a,
                        !.connections = @ + 1,
                        !.pingTime = t]
    IN  sendData(c1, preparePQFake(c1.checkNonce))

\* HttpConnection::pingTime
pingTimeOf(c) == IF isConnected(c) THEN c.pingTime ELSE 0

\* HttpConnection::needHttpWait
needHttpWait(c) == c.requests = {}

----------------------------------------------------------------------------
\* The state machine.

\* The state after HttpConnection::HttpConnection: _checkNonce is random.
Init ==
    /\ status = InitialStatus
    /\ checkNonce \in Nonces
    /\ address = ""
    /\ pingTime = 0
    /\ requests = {}
    /\ receivedQueue = <<>>
    /\ proxy = "none"
    /\ connections = 0
    /\ pending = {}
    /\ now = 0
    /\ nConnected = 0
    /\ emitted = <<>>
    /\ posted = <<>>
    /\ aborted = <<>>
    /\ op = NoOp

\* The state a call leaves behind.
Becomes(c, o) ==
    /\ 0 \notin c.requests
    /\ Len(c.receivedQueue) <= MaxQueue
    /\ status' = c.status
    /\ address' = c.address
    /\ pingTime' = c.pingTime
    /\ requests' = c.requests
    /\ receivedQueue' = c.receivedQueue
    /\ proxy' = c.proxy
    /\ connections' = c.connections
    /\ pending' = c.pending
    /\ nConnected' = c.nConnected
    /\ emitted' = c.emitted
    /\ posted' = c.posted
    /\ aborted' = c.aborted
    /\ op' = o
    /\ UNCHANGED <<checkNonce, now>>

SetProxyOverride ==
    \E p \in Proxies :
        Becomes(setProxyOverride(Self, p),
                [NoOp EXCEPT !.name = "setProxyOverride", !.proxy = p])

SendData ==
    \E buffer \in Buffers :
        Becomes(sendData(Self, buffer),
                [NoOp EXCEPT !.name = "sendData", !.buffer = buffer])

\* The owner connects a connection that is not connected: once after its
\* construction, and again, if it likes, after disconnectFromServer.
ConnectToServer ==
    \E a \in Addresses, port \in Ports :
        /\ connections = 0
        /\ Becomes(connectToServer(Self, a, port, now),
                   [NoOp EXCEPT !.name = "connectToServer", !.address = a, !.port = port])

DisconnectFromServer ==
    \E fired \in SUBSET (requests \cap pending) :
        Becomes(disconnectFromServer(Self, fired, now),
                [NoOp EXCEPT !.name = "disconnectFromServer", !.fired = fired,
                             !.calls = connections])

\* The engine completes reply h successfully with a body.
FinishedOk ==
    \E h \in pending, body \in Bodies :
        /\ connections > 0
        /\ Becomes(EmitFinished([Self EXCEPT !.pending = @ \ {h}],
                                Reply(h, "NoError", NoStatusCode, body), connections, now),
                   [NoOp EXCEPT !.name = "requestFinished", !.h = h, !.body = body,
                                !.calls = connections])

\* The engine completes reply h with a failure.
FinishedError ==
    \E h \in pending, f \in Failures :
        /\ connections > 0
        /\ Becomes(EmitFinished([Self EXCEPT !.pending = @ \ {h}],
                                Reply(h, f.error, f.statusCode, <<>>), connections, now),
                   [NoOp EXCEPT !.name = "requestFinished", !.h = h, !.error = f.error,
                                !.statusCode = f.statusCode, !.calls = connections])

\* The engine completes reply h while finished() is connected to no slot:
\* the connection is not called.
FinishedUnheard ==
    \E h \in pending :
        /\ connections = 0
        /\ Becomes([Self EXCEPT !.pending = @ \ {h}],
                   [NoOp EXCEPT !.name = "unheard", !.h = h])

\* getms() advances.
Tick ==
    /\ now < MaxTime
    /\ now' = now + 1
    /\ UNCHANGED <<status, checkNonce, address, pingTime, requests, receivedQueue,
                   proxy, connections, pending, nConnected,
                   emitted, posted, aborted, op>>

Next ==
    \/ SetProxyOverride
    \/ SendData
    \/ ConnectToServer
    \/ DisconnectFromServer
    \/ FinishedOk
    \/ FinishedError
    \/ FinishedUnheard
    \/ Tick

Spec == Init /\ [][Next]_vars

\* The owner connects once more a connection that is connected already: the
\* signal gets one more connection to the slot, and another probe goes out.
ConnectAgain ==
    \E a \in Addresses, port \in Ports :
        /\ connections \in 1..(MaxConnects - 1)
        /\ Becomes(connectToServer(Self, a, port, now),
                   [NoOp EXCEPT !.name = "connectToServer", !.address = a, !.port = port])

\* The two functions of a reply, each applied once to a reply of a connection
\* just made: the failures of any group of the switch of handleError with any
\* status, and the responses of any bytes up to MaxBodyLen.
HttpStatuses == {400, 401, 403, 404, 407, 408, 429, 500, 502, 503, 504}

AnyStatusCodes ==
    {NoStatusCode} \cup {[valid |-> TRUE, value |-> s] : s \in HttpStatuses}

ResponseBytes == {0, 128, 255}

Responses == SeqsUpTo(ResponseBytes, MaxBodyLen)

HandleError ==
    /\ op = NoOp
    /\ \E e \in NetworkErrors, sc \in AnyStatusCodes :
        /\ op' = [NoOp EXCEPT !.name = "handleError", !.error = e, !.statusCode = sc,
                              !.result = <<handleError(Reply(0, e, sc, <<>>))>>]
        /\ UNCHANGED <<status, checkNonce, address, pingTime, requests, receivedQueue,
                       proxy, connections, pending, now, nConnected, emitted, posted,
                       aborted>>

HandleResponse ==
    /\ op = NoOp
    /\ \E response \in Responses :
        /\ op' = [NoOp EXCEPT !.name = "handleResponse", !.body = response,
                              !.result = handleResponse(response)]
        /\ UNCHANGED <<status, checkNonce, address, pingTime, requests, receivedQueue,
                       proxy, connections, pending, now, nConnected, emitted, posted,
                       aborted>>

NextPure ==
    \/ HandleError
    \/ HandleResponse

SpecPure == Init /\ [][NextPure]_vars

\* The connection whose owner may connect it more than once; the clock and
\* the proxy are left alone.
NextTwice ==
    \/ SendData
    \/ ConnectToServer
    \/ ConnectAgain
    \/ DisconnectFromServer
    \/ FinishedOk
    \/ FinishedError
    \/ FinishedUnheard

SpecTwice == Init /\ [][NextTwice]_vars

TypeOK ==
    /\ status \in Statuses
    /\ requests \subseteq 1..MaxRequests
    /\ pending \subseteq 1..MaxRequests
    /\ Len(receivedQueue) <= MaxQueue

----------------------------------------------------------------------------
\* Steps of the handlers, told by the record of the last call.  A step of Tick
\* leaves that record as it was; every step of a handler leaves the clock.

Called(name) == op'.name = name /\ now' = now

\* requestFinished is called with a reply that succeeded / that failed.
SucceededStep == Called("requestFinished") /\ op'.error = "NoError"

FailedStep == Called("requestFinished") /\ op'.error # "NoError"

\* A body decodes to a frame of two or more words that parses as res_pq.
ParsesAsResPQ(body) ==
    /\ Len(handleResponse(body)) >= 2
    /\ readPQFakeReply(handleResponse(body)).ok

NonceOf(body) == readPQFakeReply(handleResponse(body)).nonce

----------------------------------------------------------------------------
\* C1: whatever is called, in whatever order, status changes only from
\* Connecting to Ready, from Connecting to Finished or from Ready to Finished:
\* it never goes back to Connecting and never leaves Finished.
C1_StatusOnlyAdvances ==
    [][status' # status =>
        <<status, status'>> \in {<<"Connecting", "Ready">>,
                                <<"Connecting", "Finished">>,
                                <<"Ready", "Finished">>}]_vars

\* A connection that became Ready, was disconnected, and was then asked to
\* connect again: it is still Finished.
C1_Witness ==
    /\ status = "Finished"
    /\ nConnected = 1
    /\ op.name = "connectToServer"

----------------------------------------------------------------------------
C3_ShortBufferFailsLocally ==
    [][(Called("sendData") /\ Len(op'.buffer) < 3 /\ status # "Finished") =>
        /\ posted' = <<>>
        /\ requests' = requests
        /\ pending' = pending
        /\ status' = status
        /\ emitted' = <<SigError(kErrorCodeOther)>>]_vars

\* A buffer of 2 words was refused on a connection that has a reply in flight.
C3_Witness ==
    /\ op.name = "sendData"
    /\ Len(op.buffer) = 2
    /\ status # "Finished"
    /\ requests # {}
    /\ posted = <<>>
    /\ emitted = <<SigError(kErrorCodeOther)>>

----------------------------------------------------------------------------
\* C4: while Connecting, a reply that succeeded with a frame of two or more
\* words that parses as res_pq with the nonce _checkNonce makes the status
\* Ready and emits connected() once and nothing else; and over the life of a
\* connection the status becomes Ready at most once and connected() is
\* emitted at most once: each time the status becomes Ready is the first
\* connected(), and a later reply emits none.
C4_HandshakeConnectsOnce ==
    [][/\ (SucceededStep /\ status = "Connecting" /\ ParsesAsResPQ(op'.body)
            /\ NonceOf(op'.body) = checkNonce) =>
                (status' = "Ready" /\ emitted' = <<SigConnected>>)
       /\ (status # "Ready" /\ status' = "Ready") =>
                (nConnected = 0 /\ nConnected' = 1)
       /\ nConnected' >= nConnected
       /\ nConnected' <= 1]_vars

\* A second matching handshake response has come to a connection that was
\* Ready already: it was taken as data, and connected() stays emitted once.
C4_Witness ==
    /\ status = "Ready"
    /\ nConnected = 1
    /\ op.name = "requestFinished"
    /\ op.error = "NoError"
    /\ ParsesAsResPQ(op.body)
    /\ NonceOf(op.body) = checkNonce
    /\ emitted = <<SigReceivedData>>

\* C5: while Connecting, a reply that succeeded with a frame of two or more
\* words that parses as res_pq with a nonce other than _checkNonce leaves the
\* status Connecting and emits error(kErrorCodeOther).
C5_WrongNonceSignalsError ==
    [][(SucceededStep /\ status = "Connecting" /\ ParsesAsResPQ(op'.body)
            /\ NonceOf(op'.body) # checkNonce) =>
                (status' = "Connecting" /\ emitted' = <<SigError(kErrorCodeOther)>>)]_vars

\* C6: while Connecting, a reply that succeeded with a frame of two or more
\* words that does not parse as res_pq leaves the status Connecting, appends
\* nothing to the received queue and emits error(kErrorCodeOther) once and
\* nothing else.
C6_ParseFailureSignalsError ==
    [][(SucceededStep /\ status = "Connecting"
            /\ Len(handleResponse(op'.body)) >= 2 /\ ~ParsesAsResPQ(op'.body)) =>
                /\ status' = "Connecting"
                /\ receivedQueue' = receivedQueue
                /\ emitted' = <<SigError(kErrorCodeOther)>>]_vars

\* A frame of two words that is no res_pq has come to a Connecting connection.
C6_Witness ==
    /\ status = "Connecting"
    /\ op.name = "requestFinished"
    /\ op.error = "NoError"
    /\ Len(handleResponse(op.body)) >= 2
    /\ ~ParsesAsResPQ(op.body)
    /\ emitted = <<SigError(kErrorCodeOther)>>

----------------------------------------------------------------------------
\* The fields of the connection and of the engine, without the record of the
\* last call.
object == <<status, checkNonce, address, pingTime, requests, receivedQueue,
            proxy, connections, pending, nConnected>>

\* C7: disconnectFromServer on a connection that is not Finished aborts each
\* tracked reply once and no other, leaves no reply tracked and makes the
\* status Finished; on a Finished connection it changes nothing and aborts
\* nothing; sendData on a Finished connection issues no request, tracks
\* nothing and emits nothing; so a Finished connection tracks no reply.
C7_DisconnectIdempotent ==
    [][/\ (Called("disconnectFromServer") /\ status # "Finished") =>
            /\ status' = "Finished"
            /\ requests' = {}
            /\ aborted' = [h \in requests |-> 1]
       /\ (Called("disconnectFromServer") /\ status = "Finished") =>
            /\ UNCHANGED object
            /\ aborted' = <<>>
            /\ emitted' = <<>>
            /\ posted' = <<>>
       /\ (Called("sendData") /\ status = "Finished") =>
            /\ UNCHANGED object
            /\ emitted' = <<>>
            /\ posted' = <<>>
       /\ (status' = "Finished" => requests' = {})]_vars

\* disconnectFromServer was called on a connection that was Finished already
\* (its signal is connected, which the first disconnect had undone).
C7_Witness ==
    /\ op.name = "disconnectFromServer"
    /\ status = "Finished"
    /\ connections > 0
    /\ aborted = <<>>

\* C8: a completion that comes once disconnectFromServer has begun is dropped.
\* The completions that can reach the slot then are those abort() fires from
\* inside disconnectFromServer, of a reply that succeeded or failed alike
\* (afterwards the signal is disconnected and the replies are deleted): with
\* them, disconnectFromServer emits no connected(), receivedData() or
\* error(), appends nothing to the received queue and leaves the status
\* Finished.
C8_CompletionAfterDisconnectDropped ==
    [][Called("disconnectFromServer") =>
            /\ emitted' = <<>>
            /\ receivedQueue' = receivedQueue
            /\ nConnected' = nConnected
            /\ status' = "Finished"]_vars

\* abort() has fired the completion of a tracked reply from inside
\* disconnectFromServer, the slot was called, and nothing was emitted.
C8_Witness ==
    /\ op.name = "disconnectFromServer"
    /\ op.fired # {}
    /\ op.calls > 0
    /\ DOMAIN aborted = op.fired
    /\ status = "Finished"
    /\ emitted = <<>>

\* C9: while Ready, a reply that succeeded with a frame of two or more words
\* appends that frame, and nothing else, at the end of the received queue and
\* emits receivedData() once and nothing else, the status unchanged: the
\* frames are queued in the order in which their replies completed.
C9_ReadyFrameQueuedInOrder ==
    [][(SucceededStep /\ status = "Ready" /\ Len(handleResponse(op'.body)) >= 2) =>
            /\ receivedQueue' = Append(receivedQueue, handleResponse(op'.body))
            /\ emitted' = <<SigReceivedData>>
            /\ status' = "Ready"]_vars

\* Two different frames are queued, the one that has just come is the last.
C9_Witness ==
    /\ status = "Ready"
    /\ op.name = "requestFinished"
    /\ op.error = "NoError"
    /\ Len(receivedQueue) = 2
    /\ receivedQueue[1] # receivedQueue[2]
    /\ receivedQueue[2] = handleResponse(op.body)
    /\ emitted = <<SigReceivedData>>

\* C10, as the specification states it: a reply that succeeded with a body of
\* one 4-byte word of value V emits error(V), whatever V, and is not
\* delivered as data.
C10_OneWordForwardedVerbatim ==
    [][(SucceededStep /\ status # "Finished" /\ Len(op'.body) = 4) =>
            /\ emitted' = <<SigError(BytesToWord(op'.body))>>
            /\ receivedQueue' = receivedQueue]_vars

\* C10, amended: a reply that succeeded with a body of one 4-byte word of
\* value V is a response of a bad size: it emits error(-500) whatever V (V is
\* not forwarded), and is not delivered as data.
C10_OneWordIsBadSize ==
    [][(SucceededStep /\ status # "Finished" /\ Len(op'.body) = 4) =>
            /\ emitted' = <<SigError(kBadResponseSize)>>
            /\ receivedQueue' = receivedQueue
            /\ status' = status]_vars

\* A body of one word other than -500 has come, and error(-500) went out.
C10_Witness ==
    /\ op.name = "requestFinished"
    /\ op.error = "NoError"
    /\ Len(op.body) = 4
    /\ BytesToWord(op.body) = -404
    /\ emitted = <<SigError(kBadResponseSize)>>

----------------------------------------------------------------------------
\* C11: when a reply fails and the connection is not Finished, a reply that
\* is tracked is removed from the tracked ones and error() is emitted once
\* with the code handleError maps the failure to, the status unchanged; a
\* reply that is not tracked is ignored.  The slot is called with a reply it
\* does not track when the signal has more than one connection: the first
\* call removes the reply, the later ones find it gone.  So whatever the
\* number of calls, one failure emits one error(), and nothing else changes.
C11_FailureSignalledOnceIfTracked ==
    [][(FailedStep /\ status # "Finished" /\ op'.h \in requests) =>
            /\ requests' = requests \ {op'.h}
            /\ emitted' = <<SigError(IF op'.statusCode.valid
                                     THEN -op'.statusCode.value
                                     ELSE kErrorCodeOther)>>
            /\ status' = status
            /\ receivedQueue' = receivedQueue
            /\ nConnected' = nConnected]_vars

\* A failure with the status 404 has called the slot twice; the first call
\* found the reply tracked, the second did not: one error(-404) went out.
C11_Witness ==
    /\ op.name = "requestFinished"
    /\ op.error # "NoError"
    /\ op.calls = 2
    /\ op.h \notin requests
    /\ status # "Finished"
    /\ emitted = <<SigError(-404)>>

----------------------------------------------------------------------------
\* C12: the code of a failed reply is -S when the reply has the HTTP status
\* S, and kErrorCodeOther when it has none, whatever reply->error() is.
C12_CodeIsMinusStatus ==
    op.name = "handleError" =>
        op.result = <<IF op.statusCode.valid THEN 0 - op.statusCode.value
                      ELSE kErrorCodeOther>>

\* A timeout that came with the status 404 is mapped to -404.
C12_Witness ==
    /\ op.name = "handleError"
    /\ op.error = "TimeoutError"
    /\ op.statusCode = [valid |-> TRUE, value |-> 404]
    /\ op.result = <<-404>>

\* C13: of a response that is not empty, handleResponse returns the one word
\* -500 when the size is not a multiple of 4 or is under 8, and else the
\* words whose bytes, least significant first, are the response: one word
\* for every 4 bytes.
C13_DecodesWholeWords ==
    (op.name = "handleResponse" /\ op.body # <<>>) =>
        IF Len(op.body) % 4 # 0 \/ Len(op.body) < 8
        THEN op.result = <<kBadResponseSize>>
        ELSE /\ Len(op.result) = Len(op.body) \div 4
             /\ WordsToBytes(op.result) = op.body

\* A response of 8 bytes has given two words, the first one negative.
C13_Witness ==
    /\ op.name = "handleResponse"
    /\ op.body = <<0, 0, 0, 128, 255, 0, 0, 0>>
    /\ Len(op.result) = 2
    /\ op.result[1] < 0
    /\ op.result[2] = 255

----------------------------------------------------------------------------
\* C14: while Connecting or Ready, a reply that succeeded with an empty
\* response emits no signal, appends nothing to the received queue and leaves
\* the status as it was; the reply stops being tracked, and no other field of
\* the connection changes.
C14_EmptyResponseOnlyUntracks ==
    [][(SucceededStep /\ status # "Finished" /\ op'.body = <<>>) =>
            /\ emitted' = <<>>
            /\ posted' = <<>>
            /\ receivedQueue' = receivedQueue
            /\ status' = status
            /\ nConnected' = nConnected
            /\ requests' = requests \ {op'.h}
            /\ UNCHANGED <<checkNonce, address, pingTime, proxy, connections>>]_vars

\* An empty response has come to a Ready connection that tracked its reply
\* and one more; the other is still tracked.
C14_Witness ==
    /\ status = "Ready"
    /\ op.name = "requestFinished"
    /\ op.error = "NoError"
    /\ op.body = <<>>
    /\ op.h \notin requests
    /\ requests # {}
    /\ emitted = <<>>

----------------------------------------------------------------------------
\* C19: while Connecting or Ready, a reply that succeeded with a response
\* that is not empty and whose size is not a multiple of 4 or is under 8
\* emits error(-500) once and nothing else; the response is not read as
\* res_pq (the status stays, connected() is not emitted) and nothing is
\* appended to the received queue.
C19_BadSizeSignalsMinus500 ==
    [][(SucceededStep /\ status # "Finished" /\ op'.body # <<>>
            /\ (Len(op'.body) % 4 # 0 \/ Len(op'.body) < 8)) =>
                /\ emitted' = <<SigError(-500)>>
                /\ status' = status
                /\ nConnected' = nConnected
                /\ receivedQueue' = receivedQueue]_vars

\* A response of 4 bytes that hold the word mtpc_resPQ has come to a
\* Connecting connection: it is refused for its size.
C19_Witness ==
    /\ status = "Connecting"
    /\ op.name = "requestFinished"
    /\ op.error = "NoError"
    /\ op.body = WordToBytes(mtpc_resPQ)
    /\ emitted = <<SigError(-500)>>

----------------------------------------------------------------------------
----------------------------------------------------------------------------
\* C16: the URL of every request is http://[address]:80/api when the address
\* is an IPv6 one and http://address:80/api when it is not; the port is 80
\* whatever port connectToServer was given.
C16_UrlHasPort80 ==
    \A i \in 1..Len(posted) :
        posted[i].url = IF is_ipv6(address)
                        THEN <<"http://[", address, "]:", 80, "/api">>
                        ELSE <<"http://", address, ":", 80, "/api">>

\* connectToServer was given an IPv6 address and the port 443: the probe
\* went to the port 80 of the address in brackets.
C16_Witness ==
    /\ op.name = "connectToServer"
    /\ op.port = 443
    /\ op.address = "2001:db8::1"
    /\ Len(posted) = 1
    /\ posted[1].url = <<"http://[", "2001:db8::1", "]:", 80, "/api">>

----------------------------------------------------------------------------
\* C20: a frame is appended to the received queue, and receivedData() is
\* emitted, only by a call that finds the status Ready and leaves it Ready.
\* The reply that makes the connection Ready appends nothing and emits
\* connected() alone; while Connecting the queue is empty, and a queue that
\* is not empty belongs to a connection that has emitted connected().
C20_DataOnlyWhileReady ==
    /\ [](/\ (status = "Connecting") => (receivedQueue = <<>>)
          /\ (receivedQueue # <<>>) => (nConnected = 1))
    /\ [][/\ (receivedQueue' # receivedQueue
                  \/ (now' = now /\ \E i \in 1..Len(emitted') :
                                        emitted'[i] = SigReceivedData)) =>
                  (status = "Ready" /\ status' = "Ready" /\ nConnected = 1)
          /\ (status = "Connecting" /\ status' = "Ready") =>
                  (receivedQueue' = receivedQueue /\ emitted' = <<SigConnected>>)
          /\ (status = "Finished") => (receivedQueue' = receivedQueue)]_vars

\* The handshake response has just made the connection Ready while another
\* reply is still in flight: connected() went out, and the queue is empty.
C20_Witness ==
    /\ status = "Ready"
    /\ op.name = "requestFinished"
    /\ emitted = <<SigConnected>>
    /\ receivedQueue = <<>>
    /\ pending # {}

----------------------------------------------------------------------------
\* C17: at every state the tracked replies are exactly the replies of the
\* requests posted by sendData (the probe of connectToServer among them)
\* that have neither completed nor been aborted by disconnectFromServer.
C17_TrackedAreInFlight ==
    requests = pending

----------------------------------------------------------------------------
\* C18: a request is posted only by sendData, called by the owner or by
\* connectToServer for its probe: a call of sendData with a buffer of 3 words
\* or more, and a call of connectToServer, on a connection that is not
\* Finished post one request each, whose reply is the one reply the engine
\* gains; no other call posts a request or gives the engine a reply.  So the
\* requests posted are as many as the accepted calls.
C18_PostsOnlyInSend ==
    [][(now' = now) =>
            /\ Len(posted') =
                    IF /\ status # "Finished"
                       /\ \/ op'.name = "sendData" /\ Len(op'.buffer) >= 3
                          \/ op'.name = "connectToServer"
                    THEN 1 ELSE 0
            /\ pending' \ pending = {posted'[i].h : i \in 1..Len(posted')}
            /\ requests' \ requests = {posted'[i].h : i \in 1..Len(posted')}]_vars

\* The probe of a Connecting connection has failed, and it was the one
\* request in flight: error() went out, no request did, none is in flight.
C18_Witness ==
    /\ status = "Connecting"
    /\ op.name = "requestFinished"
    /\ op.error # "NoError"
    /\ emitted = <<SigError(kErrorCodeOther)>>
    /\ posted = <<>>
    /\ pending = {}
    /\ requests = {}

====
